---- MODULE Spec2Model ----
(***************************************************************************)
(* Window manager of the zero-os desktop shell: the App component's        *)
(* openWindows/topZ state (launchApp, closeWindow, focusWindow) and the    *)
(* per-window AppWindow component state (position, phase, drag refs) with  *)
(* its setTimeout callbacks.  Every UI event is one atomic step, followed  *)
(* by a re-render (mount/unmount of AppWindow instances).                  *)
(* Also the shortcut registry (add, edit, delete, drag-and-drop reorder)   *)
(* and the backend canister's per-caller app and settings stores, and the  *)
(* copy of the registry and the settings the App keeps in localStorage.    *)
(***************************************************************************)
EXTENDS Integers, Sequences, FiniteSets, TLC

\* ---------------------------------------------------------------- bounds
NumApps     == 2   \* shortcuts in the registry
MaxLaunches == 2   \* window-creating launches (values of Date.now() used)
MaxBumps    == 3   \* draws from the z-index counter
MaxTimers   == 2   \* setTimeout callbacks pending at once (one window)
MaxPending  == 1   \* setTimeout callbacks pending at once (two shortcuts)
MaxEdits    == 1   \* edits of one shortcut's display fields
MaxAdds     == 1   \* shortcuts added through the AppModal
TickMs      == 320 \* resolution of the model's clock, in ms

\* ------------------------------------------------------ program constants
InitialTopZ   == 100
WindowW       == 900
WindowH       == 580
MinimizeDelay == 260
RestoreDelay  == 320

\* ------------------------------------------------------------ input sets
AppIds   == 1..NumApps
AppNames == 0..MaxEdits   \* revisions of a shortcut's name/url/emoji/color
InitialPositions == {[x |-> 80, y |-> 60], [x |-> 279, y |-> 159]}
Grabs     == {[x |-> 0, y |-> 0], [x |-> 450, y |-> 20]}
Pointers  == {[x |-> 0 - 40, y |-> 0 - 40], [x |-> 700, y |-> 400],
              [x |-> 2500, y |-> 1500]}
Viewports == {[w |-> 1920, h |-> 1080], [w |-> 800, h |-> 500]}

VARIABLES
  apps,           \* App: apps state, the shortcut list
  localSettings,  \* App: localSettings
  openWindows,    \* App: openWindows, sequence of [id, app, zIndex]
  topZ,           \* App: topZ
  dateNow,        \* number of Date.now() values handed to window ids
  comp,           \* mounted AppWindow instances: window id -> component state
  timers,         \* pending setTimeout callbacks, in scheduling order
  viewport,       \* window.innerWidth / window.innerHeight
  lastEvent,      \* history: the last UI event handled
  rt,             \* history: progress of a minimize/restore round trip
  iconDrag,       \* DesktopIcons: draggedId and dragStartIndex.current
  uuid,           \* number of crypto.randomUUID() values drawn
  userApps,       \* backend: caller -> <<app id -> App>>, or NoMap
  userSettings,   \* backend: caller -> <<Settings>>, or NoSettings
  reply,          \* backend: the last call and its outcome
  localStorage,   \* window.localStorage: the items under the app's keys
  intent          \* history: the last Minimize or Restore click that acted

shellVars    == <<apps, localSettings, openWindows, topZ, dateNow, comp,
                  timers, viewport, lastEvent, rt, localStorage, intent>>
registryVars == <<iconDrag, uuid>>
backendVars  == <<userApps, userSettings, reply>>

vars == <<apps, localSettings, openWindows, topZ, dateNow, comp, timers,
          viewport, lastEvent, rt, iconDrag, uuid, userApps, userSettings,
          reply, localStorage, intent>>

NoWin == [app |-> 0, t |-> 0]
NoApp == [id |-> 0, name |-> 0, order |-> 0]
NoPos == [x |-> 0, y |-> 0]
NoDrag == [draggedId |-> 0, dragStartIndex |-> 0 - 1]
NoMap  == <<>>
NoSettings == <<>>
\* reply.before: entries the caller had stored before the call
NoReply == [op |-> "none", caller |-> "", id |-> 0, before |-> 0,
            result |-> "none"]
NoRT  == [win |-> NoWin, stage |-> 0, phases |-> <<>>, pos0 |-> NoPos,
          app0 |-> NoApp]

Max(a, b) == IF a >= b THEN a ELSE b
Min(a, b) == IF a <= b THEN a ELSE b

\* ------------------------------------------------------- helper operators
Range(s) == {s[i] : i \in 1..Len(s)}
WindowIds == {w.id : w \in Range(openWindows)}
WinIn(wins, id) == CHOOSE w \in Range(wins) : w.id = id
WinOf(id) == WinIn(openWindows, id)
TimersOf(id) == {i \in 1..Len(timers) : timers[i].win = id}
MapSeq(s, F(_)) == [i \in 1..Len(s) |-> F(s[i])]

\* --------------------------------------------------------- App.launchApp
launchAppByWindowId(prev, z, app, now) ==
  IF \E w \in Range(prev) : w.id = [app |-> app.id, t |-> 0]
  THEN [openWindows |-> MapSeq(prev, LAMBDA w :
                          IF w.app.id = app.id
                          THEN [w EXCEPT !.zIndex = z + 1] ELSE w),
        topZ |-> z + 1]
  ELSE [openWindows |-> Append(prev, [id |-> [app |-> app.id, t |-> now],
                                      app |-> app, zIndex |-> z + 1]),
        topZ |-> z + 1]

launchAppRebind(prev, z, app, now) ==
  IF \E w \in Range(prev) : w.app.id = app.id
  THEN [openWindows |-> MapSeq(prev, LAMBDA w :
                          IF w.app.id = app.id
                          THEN [w EXCEPT !.zIndex = z + 1, !.app = app]
                          ELSE w),
        topZ |-> z + 1]
  ELSE [openWindows |-> Append(prev, [id |-> [app |-> app.id, t |-> now],
                                      app |-> app, zIndex |-> z + 1]),
        topZ |-> z + 1]

launchAppNoBump(prev, z, app, now) ==
  IF \E w \in Range(prev) : w.app.id = app.id
  THEN [openWindows |-> MapSeq(prev, LAMBDA w :
                          IF w.app.id = app.id
                          THEN [w EXCEPT !.zIndex = z + 1] ELSE w),
        topZ |-> z]
  ELSE [openWindows |-> Append(prev, [id |-> [app |-> app.id, t |-> now],
                                      app |-> app, zIndex |-> z + 1]),
        topZ |-> z]

launchApp(prev, z, app, now) ==
  IF \E w \in Range(prev) : w.app.id = app.id
  THEN [openWindows |-> MapSeq(prev, LAMBDA w :
                          IF w.app.id = app.id
                          THEN [w EXCEPT !.zIndex = z + 1] ELSE w),
        topZ |-> z + 1]
  ELSE [openWindows |-> Append(prev, [id |-> [app |-> app.id, t |-> now],
                                      app |-> app, zIndex |-> z + 1]),
        topZ |-> z + 1]

\* ------------------------------------------------------- App.closeWindow
closeWindowInverted(prev, windowId) ==
  SelectSeq(prev, LAMBDA w : w.id = windowId)

closeWindow(prev, windowId) == SelectSeq(prev, LAMBDA w : w.id # windowId)

\* ------------------------------------------------------- App.focusWindow
focusWindowStale(prev, z, windowId) ==
  [openWindows |-> MapSeq(prev, LAMBDA w :
                     IF w.id = windowId
                     THEN [w EXCEPT !.zIndex = z] ELSE w),
   topZ |-> z + 1]

focusWindowSkipTop(prev, z, windowId) ==
  IF \E w \in Range(prev) : w.id = windowId /\ w.zIndex = z
  THEN [openWindows |-> prev, topZ |-> z]
  ELSE [openWindows |-> MapSeq(prev, LAMBDA w :
                          IF w.id = windowId
                          THEN [w EXCEPT !.zIndex = z + 1] ELSE w),
        topZ |-> z + 1]

focusWindow(prev, z, windowId) ==
  [openWindows |-> MapSeq(prev, LAMBDA w :
                     IF w.id = windowId
                     THEN [w EXCEPT !.zIndex = z + 1] ELSE w),
   topZ |-> z + 1]

\* ------------------------------------------- AppWindow initial hook state
NewComp(p) == [pos |-> p, phase |-> "open", isDragging |-> FALSE,
               dragOffset |-> [x |-> 0, y |-> 0]]

\* React re-render: instances are mounted and unmounted by key (w.id)
Remount(c, wins, p) ==
  LET ids == {w.id : w \in Range(wins)}
  IN [id \in ids |-> IF id \in DOMAIN c THEN c[id] ELSE NewComp(p)]

\* lastEvent records the last event handled if its kind is in the set
\* lastEvent.watch chosen by the specification's initial state, and
\* "other" if it is not; rt is recorded where "minimize" is watched
AllOps == {"launch", "external", "focus", "press", "move", "up", "resize",
           "minimize", "restore", "close", "timer", "edit", "settings",
           "add", "delete", "dragstart", "drop", "dragend", "reload"}
NoEvent(watch) == [op |-> "none", win |-> NoWin, watch |-> watch]
LogEvent(op, win) ==
  IF op \in lastEvent.watch
  THEN [lastEvent EXCEPT !.op = op, !.win = win]
  ELSE [lastEvent EXCEPT !.op = "other", !.win = NoWin]
Recording == "minimize" \in lastEvent.watch
RtBreak(w) == IF rt.win = w THEN NoRT ELSE rt


RtStart(id, c2) == [win |-> id, stage |-> 1,
                    phases |-> <<comp[id].phase, c2[id].phase>>,
                    pos0 |-> comp[id].pos, app0 |-> WinOf(id).app]
RtAdvance(id, c2) == [rt EXCEPT !.stage = @ + 1,
                                !.phases = Append(@, c2[id].phase)]

\* ----------------------------------- AppWindow render: which controls exist
DialogRendered(phase)   == phase # "minimized"
MinimizeRendered(phase) == phase # "minimized"
CloseRendered(phase)    == phase # "minimized"
RestoreRenderedAlways(phase) == TRUE
RestoreRendered(phase)  == phase = "minimized"

\* ------------------------------------------------------------------ Init
DefaultApp(i) == [id |-> i, name |-> 0, order |-> i - 1]
DefaultSettings == [openInIframe |-> TRUE]

\* ------------------------------------------------- localStorage helpers
\* an item of localStorage is <<text>>, and <<>> where getItem gives null;
\* the JSON text of the app list is a sequence of <<id, name, order>>
\* entries with order written as a number, the JSON text of the settings
\* is the tuple of its fields
NoItem == <<>>
EmptyStorage == [apps |-> NoItem, settings |-> NoItem, seeded |-> NoItem]

hasBeenSeededNever(ls) == FALSE

hasBeenSeeded(ls) == ls.seeded = <<"true">>

markSeeded(ls) == [ls EXCEPT !.seeded = <<"true">>]

loadApps(ls) ==
  IF ls.apps = NoItem THEN <<>>
  ELSE MapSeq(ls.apps[1], LAMBDA e :
                [id |-> e[1], name |-> e[2], order |-> e[3]])

saveApps(ls, list) ==
  [ls EXCEPT !.apps = <<MapSeq(list, LAMBDA a : <<a.id, a.name, a.order>>)>>]

loadSettings(ls) ==
  IF ls.settings = NoItem THEN DefaultSettings
  ELSE [DefaultSettings EXCEPT !.openInIframe = ls.settings[1][1]]

saveSettings(ls, settings) ==
  [ls EXCEPT !.settings = <<<<settings.openInIframe>>>>]

\* the initializer of the apps state: the defaults are stored on the
\* first load, the stored list is used on every other one
AppsInit(ls) ==
  LET loaded == loadApps(ls)
      seeded == [i \in 1..NumApps |-> DefaultApp(i)]
  IN IF ~ hasBeenSeeded(ls)
     THEN [apps |-> seeded, localStorage |-> markSeeded(saveApps(ls, seeded))]
     ELSE [apps |-> loaded, localStorage |-> ls]

\* the storage a session holds whose first load left the list seeded
StorageOf(list) == markSeeded(saveApps(EmptyStorage, list))

NoIntent == [win |-> NoWin, op |-> "none"]
Intending == "intent" \in lastEvent.watch

\* the backend canister after installation: both maps are empty
Callers == {"alice", "bob"}
BackendInit ==
  /\ userApps = [c \in Callers |-> NoMap]
  /\ userSettings = [c \in Callers |-> NoSettings]
  /\ reply = NoReply

Init ==
  /\ apps = AppsInit(EmptyStorage).apps
  /\ localStorage = AppsInit(EmptyStorage).localStorage
  /\ intent = NoIntent
  /\ localSettings = DefaultSettings
  /\ openWindows = <<>>
  /\ topZ = InitialTopZ
  /\ dateNow = 0
  /\ comp = [id \in {} |-> NewComp(NoPos)]
  /\ timers = <<>>
  /\ viewport = [w |-> 1920, h |-> 1080]
  /\ lastEvent = NoEvent({"launch", "focus", "close", "timer"})
  /\ rt = NoRT
  /\ iconDrag = NoDrag
  /\ uuid = NumApps
  /\ BackendInit

\* --------------------------------------------------------------- actions
\* launchApp opens a window of the shell only if the setting says so
opensInIframeAlways(settings) == TRUE

opensInIframe(settings) == settings.openInIframe

\* double-click / Enter / context-menu Open / taskbar / start menu -> launchApp
Launch(a, positions) ==
  /\ a \in Range(apps)
  /\ iconDrag.draggedId = 0
  /\ IF opensInIframe(localSettings)
     THEN LET creating == ~ \E w \in Range(openWindows) : w.app.id = a.id
              r == launchApp(openWindows, topZ, a, dateNow + 1)
              target == CHOOSE w \in Range(r.openWindows) : w.app.id = a.id
          IN /\ topZ < InitialTopZ + MaxBumps
             /\ creating => dateNow < MaxLaunches
             /\ openWindows' = r.openWindows
             /\ topZ' = r.topZ
             /\ dateNow' = IF creating THEN dateNow + 1 ELSE dateNow
             /\ \E p \in (IF creating THEN positions ELSE {NoPos}) :
                  comp' = Remount(comp, r.openWindows, p)
             /\ lastEvent' = LogEvent("launch", target.id)
     ELSE /\ lastEvent' = LogEvent("external", NoWin)
          /\ UNCHANGED <<openWindows, topZ, dateNow, comp>>
  /\ UNCHANGED <<registryVars, backendVars, localStorage, intent,
                 apps, localSettings, timers, viewport, rt>>

\* mouse-down on the window body: container onMouseDown={onFocus}
BodyPress(id) ==
  /\ id \in DOMAIN comp
  /\ DialogRendered(comp[id].phase)
  /\ topZ < InitialTopZ + MaxBumps
  /\ LET r == focusWindow(openWindows, topZ, id)
     IN /\ openWindows' = r.openWindows
        /\ topZ' = r.topZ
  /\ lastEvent' = LogEvent("focus", id)
  /\ UNCHANGED <<registryVars, backendVars, localStorage, intent,
                 apps, localSettings, dateNow, comp, timers, viewport, rt>>

\* mouse-down on the title bar: handleMouseDown, then the event bubbles to
\* the container's onMouseDown
handleMouseDown(c, e) ==
  [c EXCEPT !.isDragging = TRUE,
            !.dragOffset = [x |-> e.x - c.pos.x, y |-> e.y - c.pos.y]]

TitleBarPress(id, g) ==
  /\ id \in DOMAIN comp
  /\ DialogRendered(comp[id].phase)
  /\ topZ + 1 < InitialTopZ + MaxBumps
  /\ LET e  == [x |-> comp[id].pos.x + g.x, y |-> comp[id].pos.y + g.y]
         r1 == focusWindow(openWindows, topZ, id)
         r2 == focusWindow(r1.openWindows, r1.topZ, id)
     IN /\ comp' = [comp EXCEPT ![id] = handleMouseDown(@, e)]
        /\ openWindows' = r2.openWindows
        /\ topZ' = r2.topZ
  /\ lastEvent' = LogEvent("press", id)
  /\ rt' = RtBreak(id)
  /\ UNCHANGED <<registryVars, backendVars, localStorage, intent,
                 apps, localSettings, dateNow, timers, viewport>>

\* the windows whose "mousemove" and "mouseup" listeners are registered:
\* the effect adds them when the instance mounts and its cleanup removes
\* them when it unmounts (size never changes, so it never re-runs)
Listeners == DOMAIN comp

\* window "mousemove" listener of every mounted AppWindow
handleMouseMoveNoFloor(c, e, vp) ==
  IF ~ c.isDragging THEN c
  ELSE [c EXCEPT !.pos =
          [x |-> Min(e.x - c.dragOffset.x, vp.w - WindowW),
           y |-> Min(e.y - c.dragOffset.y, vp.h - WindowH)]]

handleMouseMoveAlways(c, e, vp) ==
  [c EXCEPT !.pos =
     [x |-> Max(0, Min(e.x - c.dragOffset.x, vp.w - WindowW)),
      y |-> Max(0, Min(e.y - c.dragOffset.y, vp.h - WindowH))]]

handleMouseMove(c, e, vp) ==
  IF ~ c.isDragging THEN c
  ELSE [c EXCEPT !.pos =
          [x |-> Max(0, Min(e.x - c.dragOffset.x, vp.w - WindowW)),
           y |-> Max(0, Min(e.y - c.dragOffset.y, vp.h - WindowH))]]

MouseMove(e) ==
  /\ comp' = [id \in DOMAIN comp |-> handleMouseMove(comp[id], e, viewport)]
  /\ lastEvent' = LogEvent("move", NoWin)
  /\ rt' = IF rt.win \in DOMAIN comp /\ comp[rt.win].isDragging
           THEN NoRT ELSE rt
  /\ UNCHANGED <<registryVars, backendVars, localStorage, intent,
                 apps, localSettings, openWindows, topZ, dateNow, timers,
                 viewport>>

\* window "mouseup" listener of every mounted AppWindow
handleMouseUp(c) == [c EXCEPT !.isDragging = FALSE]

MouseUp ==
  /\ comp' = [id \in DOMAIN comp |-> handleMouseUp(comp[id])]
  /\ lastEvent' = LogEvent("up", NoWin)
  /\ UNCHANGED <<registryVars, backendVars, localStorage, intent,
                 apps, localSettings, openWindows, topZ, dateNow, timers,
                 viewport, rt>>

\* the browser window is resized; no handler of the program runs
Resize(vp) ==
  /\ vp # viewport
  /\ viewport' = vp
  /\ lastEvent' = LogEvent("resize", NoWin)
  /\ UNCHANGED <<registryVars, backendVars, localStorage, intent,
                 apps, localSettings, openWindows, topZ, dateNow, comp,
                 timers, rt>>


\* ------------------------------------------ AppWindow minimize / restore
\* handleMinimize: setPhase("minimizing"); setTimeout(..."minimized", 260)
handleMinimizePhase == "minimizing"
handleMinimizeTimerWrong(id) ==
  [win |-> id, to |-> "open", remaining |-> MinimizeDelay]

handleMinimizeTimer(id) ==
  [win |-> id, to |-> "minimized", remaining |-> MinimizeDelay]

\* handleRestore: setPhase("restoring"); setTimeout(..."open", 320)
handleRestorePhaseInstant == "open"
handleRestorePhase == "restoring"
handleRestoreTimerLost(id) ==
  [win |-> NoWin, to |-> "open", remaining |-> RestoreDelay]

handleRestoreTimer(id) ==
  [win |-> id, to |-> "open", remaining |-> RestoreDelay]

Quiescent(id) == comp[id].phase = "open" /\ TimersOf(id) = {}

\* click on the Minimize button of window id (if it is rendered)
MinimizeClick(id, cap) ==
  /\ id \in DOMAIN comp
  /\ IF MinimizeRendered(comp[id].phase)
     THEN /\ Len(timers) < cap
          /\ comp' = [comp EXCEPT ![id].phase = handleMinimizePhase]
          /\ timers' = Append(timers, handleMinimizeTimer(id))
          /\ intent' = IF Intending THEN [win |-> id, op |-> "minimize"]
                        ELSE intent
     ELSE UNCHANGED <<comp, timers, intent>>
  /\ lastEvent' = LogEvent("minimize", id)
  /\ rt' = IF Recording /\ Quiescent(id)
           THEN RtStart(id, comp') ELSE RtBreak(id)
  /\ UNCHANGED <<registryVars, backendVars, localStorage,
                 apps, localSettings, openWindows, topZ, dateNow, viewport>>

\* click on the restore indicator of window id (if it is rendered)
RestoreClick(id, cap) ==
  /\ id \in DOMAIN comp
  /\ IF RestoreRendered(comp[id].phase)
     THEN /\ Len(timers) < cap
          /\ comp' = [comp EXCEPT ![id].phase = handleRestorePhase]
          /\ timers' = Append(timers, handleRestoreTimer(id))
          /\ intent' = IF Intending THEN [win |-> id, op |-> "restore"]
                        ELSE intent
     ELSE UNCHANGED <<comp, timers, intent>>
  /\ lastEvent' = LogEvent("restore", id)
  /\ rt' = IF rt.win = id /\ rt.stage = 2
           THEN RtAdvance(id, comp') ELSE RtBreak(id)
  /\ UNCHANGED <<registryVars, backendVars, localStorage,
                 apps, localSettings, openWindows, topZ, dateNow, viewport>>

\* click on the Close button of window id (if it is rendered): onClose
CloseClick(id) ==
  /\ id \in DOMAIN comp
  /\ IF CloseRendered(comp[id].phase)
     THEN /\ openWindows' = closeWindow(openWindows, id)
          /\ comp' = Remount(comp, openWindows', NoPos)
     ELSE UNCHANGED <<openWindows, comp>>
  /\ lastEvent' = LogEvent("close", id)
  /\ rt' = RtBreak(id)
  /\ UNCHANGED <<registryVars, backendVars, localStorage, intent,
                 apps, localSettings, topZ, dateNow, timers, viewport>>

\* ------------------------------------------------------ timers and time
Due(i) == timers[i].remaining <= 0
\* the browser runs the callback with the earliest deadline first, and
\* callbacks with the same deadline in the order they were scheduled
NextDue(i) ==
  /\ Due(i)
  /\ \A j \in 1..Len(timers) :
       \/ timers[j].remaining > timers[i].remaining
       \/ (timers[j].remaining = timers[i].remaining /\ j >= i)

RemoveAt(s, i) == [j \in 1..(Len(s) - 1) |-> IF j < i THEN s[j] ELSE s[j + 1]]

\* the deferred callback () => setPhase(to); a state update on an
\* unmounted instance is dropped by React
setPhaseUnchecked(c, id, to) ==
  IF id \in DOMAIN c THEN [c EXCEPT ![id].phase = to]
  ELSE [w \in DOMAIN c \cup {id} |->
          IF w = id THEN [NewComp(NoPos) EXCEPT !.phase = to] ELSE c[w]]

setPhase(c, id, to) ==
  IF id \in DOMAIN c THEN [c EXCEPT ![id].phase = to] ELSE c

TimerFire(i) ==
  /\ i \in 1..Len(timers)
  /\ NextDue(i)
  /\ comp' = setPhase(comp, timers[i].win, timers[i].to)
  /\ timers' = RemoveAt(timers, i)
  /\ lastEvent' = LogEvent("timer", timers[i].win)
  /\ rt' = IF rt.win = timers[i].win /\ rt.stage \in {1, 3}
           THEN RtAdvance(rt.win, comp') ELSE RtBreak(timers[i].win)
  /\ UNCHANGED <<registryVars, backendVars, localStorage, intent,
                 apps, localSettings, openWindows, topZ, dateNow, viewport>>

Tick ==
  /\ timers # <<>>
  /\ \A i \in 1..Len(timers) : ~ Due(i)
  /\ timers' = [i \in 1..Len(timers) |->
                  [timers[i] EXCEPT !.remaining = @ - TickMs]]
  /\ UNCHANGED <<registryVars, backendVars, localStorage, intent,
                 apps, localSettings, openWindows, topZ, dateNow, comp,
                 viewport, lastEvent, rt>>

\* --------------------------------------------- registry and settings
\* handleSaveApp, edit branch (editingApp set): replace the entry by id
handleSaveAppEditAppend(prev, app) == Append(prev, app)

handleSaveAppEdit(prev, app) ==
  MapSeq(prev, LAMBDA a : IF a.id = app.id THEN app ELSE a)

EditApp(i, name) ==
  /\ i \in 1..Len(apps)
  /\ iconDrag.draggedId = 0
  /\ name = apps[i].name + 1
  /\ apps' = handleSaveAppEdit(apps, [apps[i] EXCEPT !.name = name])
  /\ localStorage' = saveApps(localStorage, apps')
  /\ lastEvent' = LogEvent("edit", NoWin)
  /\ UNCHANGED <<registryVars, backendVars, intent,
                 localSettings, openWindows, topZ, dateNow, comp, timers,
                 viewport, rt>>

\* AppModal.handleSave without an app to edit: a fresh id, order =
\* existingAppsCount = apps.length; handleSaveApp, add branch
handleSaveAppAdd(prev, app) == Append(prev, app)

AddApp ==
  /\ iconDrag.draggedId = 0
  /\ uuid < NumApps + MaxAdds
  /\ uuid' = uuid + 1
  /\ apps' = handleSaveAppAdd(apps, [id |-> uuid + 1, name |-> 0,
                                     order |-> Len(apps)])
  /\ localStorage' = saveApps(localStorage, apps')
  /\ lastEvent' = LogEvent("add", NoWin)
  /\ UNCHANGED <<iconDrag, backendVars, intent, localSettings, openWindows, topZ,
                 dateNow, comp, timers, viewport, rt>>

\* context menu Delete: handleDeleteApp
handleDeleteApp(prev, appId) == SelectSeq(prev, LAMBDA a : a.id # appId)

DeleteApp(appId) ==
  /\ iconDrag.draggedId = 0
  /\ \E a \in Range(apps) : a.id = appId
  /\ apps' = handleDeleteApp(apps, appId)
  /\ localStorage' = saveApps(localStorage, apps')
  /\ lastEvent' = LogEvent("delete", NoWin)
  /\ UNCHANGED <<registryVars, backendVars, intent, localSettings, openWindows,
                 topZ, dateNow, comp, timers, viewport, rt>>

\* ------------------------------------------- DesktopIcons: drag reorder
\* sortedApps = [...apps].sort((a, b) => Number(a.order) - Number(b.order));
\* Array.prototype.sort is stable
RECURSIVE sortedApps(_)
sortedApps(list) ==
  IF list = <<>> THEN <<>>
  ELSE LET r == sortedApps(SubSeq(list, 1, Len(list) - 1))
           a == list[Len(list)]
           k == Cardinality({i \in 1..Len(r) : r[i].order <= a.order})
       IN SubSeq(r, 1, k) \o <<a>> \o SubSeq(r, k + 1, Len(r))

\* handleDragStart(e, app, index), index counted from 0
DragStart(index) ==
  /\ iconDrag.draggedId = 0
  /\ index \in 0..(Len(apps) - 1)
  /\ iconDrag' = [draggedId |-> sortedApps(apps)[index + 1].id,
                  dragStartIndex |-> index]
  /\ lastEvent' = LogEvent("dragstart", NoWin)
  /\ UNCHANGED <<uuid, backendVars, localStorage, intent, apps, localSettings, openWindows, topZ,
                 dateNow, comp, timers, viewport, rt>>

\* newApps.splice(targetIndex, 0, removed), targetIndex counted from 0
InsertAt(list, index, x) ==
  LET k == Min(index, Len(list))
  IN SubSeq(list, 1, k) \o <<x>> \o SubSeq(list, k + 1, Len(list))

\* handleDrop past its early return: the list handed to onReorder
handleDropSwap(sorted, sourceIdx, targetIndex) ==
  [i \in 1..Len(sorted) |->
     [(IF i = targetIndex + 1 THEN sorted[sourceIdx + 1]
       ELSE IF i = sourceIdx + 1 THEN sorted[targetIndex + 1]
       ELSE sorted[i]) EXCEPT !.order = i - 1]]

handleDropKeepOrder(sorted, sourceIdx, targetIndex) ==
  InsertAt(RemoveAt(sorted, sourceIdx + 1), targetIndex,
           sorted[sourceIdx + 1])

handleDrop(sorted, sourceIdx, targetIndex) ==
  LET removed == sorted[sourceIdx + 1]
      newApps == InsertAt(RemoveAt(sorted, sourceIdx + 1), targetIndex,
                          removed)
  IN [i \in 1..Len(newApps) |-> [newApps[i] EXCEPT !.order = i - 1]]

handleReorderUnsaved(ls, reordered) ==
  [apps |-> reordered, localStorage |-> ls]

\* handleReorder: the list is saved and replaces the apps state
handleReorder(ls, reordered) ==
  [apps |-> reordered, localStorage |-> saveApps(ls, reordered)]

\* a drop on the icon at targetIndex: handleDrop, onReorder
Drop(targetIndex) ==
  /\ targetIndex \in 0..(Len(apps) - 1)
  /\ LET sorted == sortedApps(apps)
         targetApp == sorted[targetIndex + 1]
     IN IF iconDrag.draggedId = 0 \/ iconDrag.draggedId = targetApp.id
        THEN UNCHANGED <<apps, localStorage>>
        ELSE LET r == handleReorder(localStorage,
                        handleDrop(sorted, iconDrag.dragStartIndex,
                                   targetIndex))
             IN /\ apps' = r.apps
                /\ localStorage' = r.localStorage
  /\ iconDrag' = [iconDrag EXCEPT !.draggedId = 0]
  /\ lastEvent' = LogEvent("drop", NoWin)
  /\ UNCHANGED <<uuid, backendVars, intent, localSettings, openWindows, topZ,
                 dateNow, comp, timers, viewport, rt>>

\* handleDragEnd: the drag session is over, dropped or not
DragEnd ==
  /\ iconDrag.draggedId # 0
  /\ iconDrag' = [iconDrag EXCEPT !.draggedId = 0]
  /\ lastEvent' = LogEvent("dragend", NoWin)
  /\ UNCHANGED <<uuid, backendVars, localStorage, intent, apps, localSettings, openWindows, topZ,
                 dateNow, comp, timers, viewport, rt>>

\* handleSettingsChange
SettingsChange(s) ==
  /\ s # localSettings
  /\ localSettings' = s
  /\ localStorage' = saveSettings(localStorage, s)
  /\ lastEvent' = LogEvent("settings", NoWin)
  /\ UNCHANGED <<registryVars, backendVars, intent,
                 apps, openWindows, topZ, dateNow, comp, timers, viewport,
                 rt>>

\* the page is loaded again: the App component is constructed from
\* localStorage, every window, timer and drag of the old page is gone
Reload ==
  /\ apps' = AppsInit(localStorage).apps
  /\ localStorage' = AppsInit(localStorage).localStorage
  /\ localSettings' = loadSettings(localStorage)
  /\ openWindows' = <<>>
  /\ topZ' = InitialTopZ
  /\ comp' = [id \in {} |-> NewComp(NoPos)]
  /\ timers' = <<>>
  /\ iconDrag' = NoDrag
  /\ rt' = NoRT
  /\ intent' = NoIntent
  /\ lastEvent' = LogEvent("reload", NoWin)
  /\ UNCHANGED <<backendVars, dateNow, uuid, viewport>>

\* where positions are not observed every window opens at the same place
FirstPosition == {[x |-> 80, y |-> 60]}
AllWindowIds == {[app |-> a, t |-> n] : a \in AppIds, n \in 1..MaxLaunches}
AllApps == {[id |-> i, name |-> n, order |-> i - 1] :
              i \in AppIds, n \in AppNames}

\* ------------------------------------------------- backend (main.mo)
\* Settings.default()
SettingsDefault ==
  [wallpaper |-> "#050510", accentColor |-> "#00f5ff",
   openInIframe |-> TRUE, showClock |-> TRUE,
   taskbarPosition |-> "bottom", backgroundEffect |-> "grid"]

\* records a caller may pass to updateSettings
SettingsInputs ==
  {[SettingsDefault EXCEPT !.taskbarPosition = "top"],
   [wallpaper |-> "#000000", accentColor |-> "#ff0040",
    openInIframe |-> FALSE, showClock |-> FALSE,
    taskbarPosition |-> "top", backgroundEffect |-> "none"]}

\* Map.empty, Map.add, Map.remove, Map.containsKey on app id -> App
EmptyMap == [k \in {} |-> NoApp]
MapAdd(m, k, v) == [x \in DOMAIN m \cup {k} |-> IF x = k THEN v ELSE m[x]]
MapRemove(m, k) == [x \in DOMAIN m \ {k} |-> m[x]]

\* addApp: the caller's map (a new one if there is none) gets app.id -> app
addAppShared(ua, caller, app) ==
  LET m == IF ua[caller] = NoMap THEN EmptyMap ELSE ua[caller][1]
  IN [userApps |-> [c \in DOMAIN ua |-> <<MapAdd(m, app.id, app)>>],
      result |-> "ok"]

addAppReject(ua, caller, app) ==
  LET m == IF ua[caller] = NoMap THEN EmptyMap ELSE ua[caller][1]
  IN IF app.id \in DOMAIN m
     THEN [userApps |-> ua, result |-> "App already exists"]
     ELSE [userApps |-> [ua EXCEPT ![caller] = <<MapAdd(m, app.id, app)>>],
           result |-> "ok"]

addApp(ua, caller, app) ==
  LET m == IF ua[caller] = NoMap THEN EmptyMap ELSE ua[caller][1]
  IN [userApps |-> [ua EXCEPT ![caller] = <<MapAdd(m, app.id, app)>>],
      result |-> "ok"]

\* updateApp: traps unless the caller has a map holding app.id
updateAppUpsert(ua, caller, app) ==
  LET m == IF ua[caller] = NoMap THEN EmptyMap ELSE ua[caller][1]
  IN [userApps |-> [ua EXCEPT ![caller] = <<MapAdd(m, app.id, app)>>],
      result |-> "ok"]

updateApp(ua, caller, app) ==
  IF ua[caller] = NoMap
  THEN [userApps |-> ua, result |-> "No apps found for user"]
  ELSE IF app.id \notin DOMAIN ua[caller][1]
  THEN [userApps |-> ua, result |-> "App not found"]
  ELSE [userApps |-> [ua EXCEPT ![caller] = <<MapAdd(@[1], app.id, app)>>],
        result |-> "ok"]

\* deleteApp: traps unless the caller has a map holding appId
deleteApp(ua, caller, appId) ==
  IF ua[caller] = NoMap
  THEN [userApps |-> ua, result |-> "No apps found for user"]
  ELSE IF appId \notin DOMAIN ua[caller][1]
  THEN [userApps |-> ua, result |-> "App not found"]
  ELSE [userApps |-> [ua EXCEPT ![caller] = <<MapRemove(@[1], appId)>>],
        result |-> "ok"]

\* getApps: the values of the caller's map, in key order
RECURSIVE ValuesOf(_, _)
ValuesOf(m, keys) ==
  IF keys = {} THEN <<>>
  ELSE LET k == CHOOSE x \in keys : \A y \in keys : x <= y
       IN <<m[k]>> \o ValuesOf(m, keys \ {k})

getApps(ua, caller) ==
  IF ua[caller] = NoMap THEN <<>>
  ELSE ValuesOf(ua[caller][1], DOMAIN ua[caller][1])

getSettings(us, caller) ==
  IF us[caller] = NoSettings THEN SettingsDefault ELSE us[caller][1]

updateSettingsKeepFirst(us, caller, newSettings) ==
  IF us[caller] = NoSettings
  THEN [us EXCEPT ![caller] = <<newSettings>>] ELSE us

updateSettings(us, caller, newSettings) ==
  [us EXCEPT ![caller] = <<newSettings>>]

AddAppCall(caller, app) ==
  /\ userApps' = addApp(userApps, caller, app).userApps
  /\ reply' = [op |-> "addApp", caller |-> caller, id |-> app.id,
               before |-> Len(getApps(userApps, caller)),
               result |-> addApp(userApps, caller, app).result]
  /\ UNCHANGED <<shellVars, registryVars, userSettings>>

UpdateAppCall(caller, app) ==
  /\ userApps' = updateApp(userApps, caller, app).userApps
  /\ reply' = [op |-> "updateApp", caller |-> caller, id |-> app.id,
               before |-> Len(getApps(userApps, caller)),
               result |-> updateApp(userApps, caller, app).result]
  /\ UNCHANGED <<shellVars, registryVars, userSettings>>

DeleteAppCall(caller, appId) ==
  /\ userApps' = deleteApp(userApps, caller, appId).userApps
  /\ reply' = [op |-> "deleteApp", caller |-> caller, id |-> appId,
               before |-> Len(getApps(userApps, caller)),
               result |-> deleteApp(userApps, caller, appId).result]
  /\ UNCHANGED <<shellVars, registryVars, userSettings>>

UpdateSettingsCall(caller, newSettings) ==
  /\ userSettings' = updateSettings(userSettings, caller, newSettings)
  /\ reply' = [op |-> "updateSettings", caller |-> caller, id |-> 0,
               before |-> Len(userSettings[caller]), result |-> "ok"]
  /\ UNCHANGED <<shellVars, registryVars, userApps>>

\* ---------------------------------------------------------------- steps
LaunchStep(positions) == \E a \in Range(apps) : Launch(a, positions)
BodyPressStep  == \E id \in AllWindowIds : BodyPress(id)
TitlePressStep == \E id \in AllWindowIds, g \in Grabs : TitleBarPress(id, g)
MouseMoveStep  == \E e \in Pointers : MouseMove(e)
ResizeStep     == \E vp \in Viewports : Resize(vp)
MinimizeStep(cap) == \E id \in AllWindowIds : MinimizeClick(id, cap)
RestoreStep(cap) == \E id \in AllWindowIds : RestoreClick(id, cap)
CloseStep      == \E id \in AllWindowIds : CloseClick(id)
TimerStep      == \E i \in 1..MaxTimers : TimerFire(i)
\* the user edits the shortcut seeded first
EditStep       == \E i \in 1..(NumApps + MaxAdds), n \in AppNames :
                    /\ i \in 1..Len(apps)
                    /\ apps[i].id = 1
                    /\ EditApp(i, n)
SettingsStep   == \E b \in BOOLEAN : SettingsChange([openInIframe |-> b])
DeleteStep     == \E i \in 1..(NumApps + MaxAdds) : DeleteApp(i)
DragStartStep  == \E i \in 0..(NumApps + MaxAdds - 1) : DragStart(i)
DropStep       == \E i \in 0..(NumApps + MaxAdds - 1) : Drop(i)

\* the window manager with several shortcuts: launch, focus, close, and
\* minimize/restore with their timers
Next ==
  \/ LaunchStep(FirstPosition)
  \/ BodyPressStep
  \/ MinimizeStep(MaxPending)
  \/ RestoreStep(MaxPending)
  \/ CloseStep
  \/ TimerStep
  \/ Tick

Spec == Init /\ [][Next]_vars

\* one AppWindow: a registry holding a single shortcut, which is edited and
\* whose window is dragged, minimized, restored, closed and relaunched
\* while the viewport may be resized
InitWindow ==
  /\ apps = <<DefaultApp(1)>>
  /\ localSettings = DefaultSettings
  /\ openWindows = <<>>
  /\ topZ = InitialTopZ
  /\ dateNow = 0
  /\ comp = [id \in {} |-> NewComp(NoPos)]
  /\ timers = <<>>
  /\ viewport \in Viewports
  /\ lastEvent = NoEvent(AllOps)
  /\ rt = NoRT
  /\ iconDrag = NoDrag
  /\ uuid = 1
  /\ localStorage = StorageOf(apps)
  /\ intent = NoIntent
  /\ BackendInit

NextWindow ==
  \/ LaunchStep(InitialPositions)
  \/ TitlePressStep
  \/ MouseMoveStep
  \/ MouseUp
  \/ ResizeStep
  \/ MinimizeStep(MaxTimers)
  \/ RestoreStep(MaxTimers)
  \/ CloseStep
  \/ TimerStep
  \/ Tick
  \/ EditStep

SpecWindow == InitWindow /\ [][NextWindow]_vars


\* the shortcut registry: shortcuts are added, edited, deleted and
\* reordered by drag and drop on the desktop
InitRegistry ==
  /\ apps = [i \in 1..NumApps |-> DefaultApp(i)]
  /\ localSettings = DefaultSettings
  /\ openWindows = <<>>
  /\ topZ = InitialTopZ
  /\ dateNow = 0
  /\ comp = [id \in {} |-> NewComp(NoPos)]
  /\ timers = <<>>
  /\ viewport = [w |-> 1920, h |-> 1080]
  /\ lastEvent = NoEvent({"add", "edit", "delete", "drop"})
  /\ rt = NoRT
  /\ iconDrag = NoDrag
  /\ uuid = NumApps
  /\ localStorage = StorageOf(apps)
  /\ intent = NoIntent
  /\ BackendInit

NextRegistry ==
  \/ AddApp
  \/ EditStep
  \/ DeleteStep
  \/ DragStartStep
  \/ DropStep
  \/ DragEnd

SpecRegistry == InitRegistry /\ [][NextRegistry]_vars

\* the phases of one window with the browser's timers running: time
\* passes while a callback is pending, and a callback that is due runs
InitPhases ==
  /\ apps = <<DefaultApp(1)>>
  /\ localSettings = DefaultSettings
  /\ openWindows = <<>>
  /\ topZ = InitialTopZ
  /\ dateNow = 0
  /\ comp = [id \in {} |-> NewComp(NoPos)]
  /\ timers = <<>>
  /\ viewport = [w |-> 1920, h |-> 1080]
  /\ lastEvent = NoEvent({"intent"})
  /\ rt = NoRT
  /\ iconDrag = NoDrag
  /\ uuid = 1
  /\ localStorage = StorageOf(apps)
  /\ intent = NoIntent
  /\ BackendInit

NextPhases ==
  \/ LaunchStep(FirstPosition)
  \/ MinimizeStep(MaxTimers)
  \/ RestoreStep(MaxTimers)
  \/ CloseStep
  \/ TimerStep
  \/ Tick

SpecPhases ==
  InitPhases /\ [][NextPhases]_vars /\ WF_vars(TimerStep) /\ WF_vars(Tick)

\* the persisted session: after the first load in a fresh browser the
\* registry and the settings are changed and the page is loaded again
InitStorage ==
  /\ apps = AppsInit(EmptyStorage).apps
  /\ localStorage = AppsInit(EmptyStorage).localStorage
  /\ localSettings = loadSettings(EmptyStorage)
  /\ openWindows = <<>>
  /\ topZ = InitialTopZ
  /\ dateNow = 0
  /\ comp = [id \in {} |-> NewComp(NoPos)]
  /\ timers = <<>>
  /\ viewport = [w |-> 1920, h |-> 1080]
  /\ lastEvent = NoEvent({"delete", "drop", "settings", "reload"})
  /\ rt = NoRT
  /\ iconDrag = NoDrag
  /\ uuid = NumApps
  /\ intent = NoIntent
  /\ BackendInit

NextStorage ==
  \/ AddApp
  \/ EditStep
  \/ DeleteStep
  \/ DragStartStep
  \/ DropStep
  \/ DragEnd
  \/ SettingsStep
  \/ Reload

SpecStorage == InitStorage /\ [][NextStorage]_vars

\* the shell: two seeded shortcuts are launched, edited, deleted and
\* reordered while their windows are open, focused and closed, and while
\* the openInIframe setting is switched
InitShell ==
  /\ apps = <<DefaultApp(1), DefaultApp(2)>>
  /\ localSettings = DefaultSettings
  /\ openWindows = <<>>
  /\ topZ = InitialTopZ
  /\ dateNow = 0
  /\ comp = [id \in {} |-> NewComp(NoPos)]
  /\ timers = <<>>
  /\ viewport = [w |-> 1920, h |-> 1080]
  /\ lastEvent = NoEvent({"launch", "external", "focus", "close", "edit",
                          "delete", "drop"})
  /\ rt = NoRT
  /\ iconDrag = NoDrag
  /\ uuid = 2
  /\ localStorage = StorageOf(apps)
  /\ intent = NoIntent
  /\ BackendInit

NextShell ==
  \/ LaunchStep(FirstPosition)
  \/ BodyPressStep
  \/ CloseStep
  \/ SettingsStep
  \/ EditStep
  \/ DeleteStep
  \/ DragStartStep
  \/ DropStep
  \/ DragEnd

SpecShell == InitShell /\ [][NextShell]_vars

\* the backend canister called by two principals
BackendApps == {[id |-> i, name |-> n, order |-> i - 1] :
                  i \in AppIds, n \in {0, 1}}
\* the shortcuts that go through the AppModal
TenantApps  == {a \in BackendApps : a.id <= MaxAdds}
AddCallStep(as)    == \E c \in Callers, a \in as : AddAppCall(c, a)
UpdateCallStep(as) == \E c \in Callers, a \in as : UpdateAppCall(c, a)
DeleteCallStep   == \E c \in Callers, i \in AppIds : DeleteAppCall(c, i)
SettingsCallStep == \E c \in Callers, n \in SettingsInputs :
                      UpdateSettingsCall(c, n)

\* the app store of the canister
NextBackend ==
  \/ AddCallStep(BackendApps)
  \/ UpdateCallStep(BackendApps)
  \/ DeleteCallStep

SpecBackend == Init /\ [][NextBackend]_vars

\* the canister's tenants: app store and settings store together
NextTenants ==
  \/ AddCallStep(TenantApps)
  \/ UpdateCallStep(TenantApps)
  \/ DeleteCallStep
  \/ SettingsCallStep

SpecTenants == Init /\ [][NextTenants]_vars

\* the two stores of shortcuts: the registry in the browser and the
\* canister share no state and no call, so a behaviour follows one of
\* them; the run that watches no UI event is the canister's
InitCanister ==
  /\ apps = <<>>
  /\ localSettings = DefaultSettings
  /\ openWindows = <<>>
  /\ topZ = InitialTopZ
  /\ dateNow = 0
  /\ comp = [id \in {} |-> NewComp(NoPos)]
  /\ timers = <<>>
  /\ viewport = [w |-> 1920, h |-> 1080]
  /\ lastEvent = NoEvent({})
  /\ rt = NoRT
  /\ iconDrag = NoDrag
  /\ uuid = 0
  /\ localStorage = StorageOf(apps)
  /\ intent = NoIntent
  /\ BackendInit

InitStores == InitRegistry \/ InitCanister

NextStores ==
  \/ lastEvent.watch # {} /\ NextRegistry
  \/ lastEvent.watch = {} /\ NextBackend

SpecStores == InitStores /\ [][NextStores]_vars

\* ================================================================ claims
Others(id) == {w \in Range(openWindows) : w.id # id}

\* C1: after any sequence of Launch and Focus events, the window that was
\* launched or focused last has a zIndex strictly greater than that of
\* every other window in openWindows.
C1_LastFocusedOnTop ==
  lastEvent.op \in {"launch", "focus"} =>
    /\ lastEvent.win \in WindowIds
    /\ \A w \in Others(lastEvent.win) :
         WinOf(lastEvent.win).zIndex > w.zIndex

\* the window opened first was focused again over the one opened later
C1_Witness ==
  /\ lastEvent.op = "focus"
  /\ Len(openWindows) = 2
  /\ lastEvent.win = openWindows[1].id
  /\ openWindows[1].zIndex > openWindows[2].zIndex

\* C2: openWindows never holds two windows of one app.id, and launching an
\* app whose window is open (in any phase) adds no window and changes only
\* that window's zIndex: its id, app snapshot, phase and position stay.
OnePerApp ==
  \A i, j \in 1..Len(openWindows) :
    i # j => openWindows[i].app.id # openWindows[j].app.id

RelaunchOnlyRefocuses(a) ==
  (Launch(a, FirstPosition)
     /\ \E w \in Range(openWindows) : w.app.id = a.id) =>
    /\ Len(openWindows') = Len(openWindows)
    /\ \A i \in 1..Len(openWindows) :
         /\ openWindows'[i].id = openWindows[i].id
         /\ openWindows'[i].app = openWindows[i].app
         /\ openWindows[i].app.id # a.id => openWindows'[i] = openWindows[i]
    /\ comp' = comp

C2_SingleWindowPerApp ==
  /\ []OnePerApp
  /\ [][\A a \in AllApps : RelaunchOnlyRefocuses(a)]_vars

\* the app opened first was launched again while its window was minimized
\* and another window was open: the window kept its place and its phase
C2_Witness ==
  /\ lastEvent.op = "launch"
  /\ Len(openWindows) = 2
  /\ lastEvent.win = openWindows[1].id
  /\ comp[lastEvent.win].phase = "minimized"
  /\ openWindows[1].zIndex = topZ
  /\ openWindows[1].zIndex > openWindows[2].zIndex

\* C3 (as stated): after every pointer-move handled during a drag the
\* position satisfies 0 <= x <= viewportWidth - width and
\* 0 <= y <= viewportHeight - height, for every viewport size.
Dragged == {id \in DOMAIN comp : comp[id].isDragging}

C3_Original ==
  lastEvent.op = "move" =>
    \A id \in Dragged :
      /\ 0 <= comp[id].pos.x /\ comp[id].pos.x <= viewport.w - WindowW
      /\ 0 <= comp[id].pos.y /\ comp[id].pos.y <= viewport.h - WindowH

\* C3 (amended): after every pointer-move handled during a drag,
\* 0 <= x <= max(0, viewportWidth - width) and
\* 0 <= y <= max(0, viewportHeight - height); in a viewport narrower
\* (shorter) than the window x (y) is 0.
C3_ClampedToViewport ==
  lastEvent.op = "move" =>
    \A id \in Dragged :
      /\ 0 <= comp[id].pos.x
      /\ comp[id].pos.x <= Max(0, viewport.w - WindowW)
      /\ 0 <= comp[id].pos.y
      /\ comp[id].pos.y <= Max(0, viewport.h - WindowH)

\* a drag towards the bottom right was stopped at the viewport's edge
C3_Witness ==
  /\ lastEvent.op = "move"
  /\ \E id \in Dragged :
       /\ viewport.w > WindowW /\ viewport.h > WindowH
       /\ comp[id].pos.x = viewport.w - WindowW
       /\ comp[id].pos.y = viewport.h - WindowH


\* C4: from phase open with no callback pending, Minimize, the minimize
\* callback, Restore, the restore callback visit the phases open,
\* minimizing, minimized, restoring, open in this order and leave the
\* window's position and app as they were before Minimize.
C4_RoundTrip ==
  rt.stage = 4 =>
    /\ rt.phases = <<"open", "minimizing", "minimized", "restoring", "open">>
    /\ rt.win \in DOMAIN comp
    /\ comp[rt.win].phase = "open"
    /\ comp[rt.win].pos = rt.pos0
    /\ WinOf(rt.win).app = rt.app0

\* a round trip has completed on a window that had been dragged before
C4_Witness ==
  /\ rt.stage = 4
  /\ lastEvent.op = "timer"
  /\ rt.pos0 \notin InitialPositions

\* C5: every phase change of a window is one of open->minimizing,
\* minimizing->minimized, minimized->restoring, restoring->open.
PhaseCycle == {<<"open", "minimizing">>, <<"minimizing", "minimized">>,
               <<"minimized", "restoring">>, <<"restoring", "open">>}

C5_PhaseCycleOnly ==
  [][\A id \in DOMAIN comp \cap DOMAIN comp' :
       comp'[id].phase # comp[id].phase =>
         <<comp[id].phase, comp'[id].phase>> \in PhaseCycle]_vars

\* C6: Minimize invoked on a window whose phase is not open changes no
\* phase and schedules no further deferred transition.
C6_MinimizeNoOp ==
  [][\A id \in AllWindowIds :
       (MinimizeClick(id, MaxTimers) /\ comp[id].phase # "open") =>
         UNCHANGED <<comp, timers, openWindows, topZ>>]_vars

\* C7: Restore invoked on a window whose phase is not minimized changes no
\* phase and schedules no deferred transition.
C7_RestoreNoOp ==
  [][\A id \in AllWindowIds :
       (RestoreClick(id, MaxTimers) /\ comp[id].phase # "minimized") =>
         UNCHANGED <<comp, timers, openWindows, topZ>>]_vars

\* Restore was invoked on a window that is open with nothing pending
C7_Witness ==
  /\ lastEvent.op = "restore"
  /\ lastEvent.win \in DOMAIN comp
  /\ comp[lastEvent.win].phase = "open"
  /\ timers = <<>>

\* C8: when the deferred callback of a window that was closed meanwhile
\* fires, the window stays absent from openWindows and no window is added
\* or changed.
C8_CallbackAfterClose ==
  [][\A i \in 1..MaxTimers :
       (TimerFire(i) /\ timers[i].win \notin WindowIds) =>
         /\ openWindows' = openWindows
         /\ comp' = comp
         /\ timers[i].win \notin DOMAIN comp']_vars

\* the callback of a closed window has fired while another window is open
C8_Witness ==
  /\ lastEvent.op = "timer"
  /\ lastEvent.win \notin WindowIds
  /\ lastEvent.win \notin DOMAIN comp
  /\ openWindows # <<>>

\* C9: Close(windowId) removes the window with that id whatever its phase
\* and leaves every other window and the z-index counter unchanged.
Removes(prev, next, id) ==
  /\ \A w \in Range(next) : w.id # id
  /\ Len(next) = Len(prev) - 1
  /\ \A i, j \in 1..Len(prev) :
       (i < j /\ prev[i].id # id /\ prev[j].id # id) =>
         \E k, l \in 1..Len(next) :
           k < l /\ next[k] = prev[i] /\ next[l] = prev[j]
  /\ \A w \in Range(prev) : w.id # id => w \in Range(next)

C9_CloseRemovesOnlyTarget ==
  /\ [](\A id \in WindowIds :
          Removes(openWindows, closeWindow(openWindows, id), id))
  /\ [][\A id \in AllWindowIds :
          (CloseClick(id) /\ CloseRendered(comp[id].phase)) =>
            /\ Removes(openWindows, openWindows', id)
            /\ topZ' = topZ
            /\ DOMAIN comp' = DOMAIN comp \ {id}
            /\ \A w \in DOMAIN comp' : comp'[w] = comp[w]]_vars

\* a window was closed while its minimize callback was pending, and the
\* other window is still open
C9_Witness ==
  /\ lastEvent.op = "close"
  /\ lastEvent.win \notin WindowIds
  /\ Len(openWindows) = 1
  /\ \E i \in 1..Len(timers) : timers[i].win = lastEvent.win

\* C10: Focus(windowId) gives that window the zIndex counter + 1 and
\* advances the counter by one, also when the window is already topmost;
\* every other window keeps its zIndex and the set of windows is unchanged.
C10_FocusDrawsNext ==
  [][\A id \in AllWindowIds :
       BodyPress(id) =>
         /\ topZ' = topZ + 1
         /\ Len(openWindows') = Len(openWindows)
         /\ \A i \in 1..Len(openWindows) :
              IF openWindows[i].id = id
              THEN openWindows'[i] = [openWindows[i] EXCEPT !.zIndex = topZ + 1]
              ELSE openWindows'[i] = openWindows[i]]_vars

\* of two windows the one opened last, already topmost, was focused and
\* drew a new value while the other kept its own
C10_Witness ==
  /\ lastEvent.op = "focus"
  /\ Len(openWindows) = 2
  /\ lastEvent.win = openWindows[2].id
  /\ openWindows[1].zIndex = InitialTopZ + 1
  /\ openWindows[2].zIndex = InitialTopZ + 3
  /\ topZ = InitialTopZ + 3

\* C11: a window's position changes only while its phase is open: no
\* press/move sequence changes the position of a window whose phase is
\* minimizing, minimized or restoring, also when the drag began earlier.
C11_DragOnlyWhenOpen ==
  [][\A id \in DOMAIN comp \cap DOMAIN comp' :
       comp[id].phase # "open" => comp'[id].pos = comp[id].pos]_vars

\* C12: after handleDeleteApp(appId) no window in openWindows references
\* the deleted app id.
C12_DeleteClosesWindows ==
  [][\A appId \in 1..(NumApps + MaxAdds) :
       DeleteApp(appId) =>
         \A w \in Range(openWindows') : w.app.id # appId]_vars

\* C13: dropping the shortcut at sorted index s onto the one at sorted
\* index t (s # t) yields the sorted list with element s removed and
\* inserted at index t, order = index everywhere and the same ids.
Skip(list, k, j) == IF j < k THEN list[j] ELSE list[j + 1]
Unordered(a) == [a EXCEPT !.order = 0]
Moved(sorted, s, t, result) ==
  /\ Len(result) = Len(sorted)
  /\ Unordered(result[t + 1]) = Unordered(sorted[s + 1])
  /\ \A j \in 1..(Len(sorted) - 1) :
       Unordered(Skip(result, t + 1, j)) = Unordered(Skip(sorted, s + 1, j))
  /\ \A i \in 1..Len(result) : result[i].order = i - 1
  /\ {a.id : a \in Range(result)} = {a.id : a \in Range(sorted)}

EffectiveDrop(t) ==
  /\ Drop(t)
  /\ iconDrag.draggedId # 0
  /\ t # iconDrag.dragStartIndex

C13_DropMovesShortcut ==
  [][\A t \in 0..(NumApps + MaxAdds - 1) :
       EffectiveDrop(t) =>
         Moved(sortedApps(apps), iconDrag.dragStartIndex, t, apps')]_vars

\* C moved before A in [A(0), B(1), C(2)] gave [C(0), A(1), B(2)]
C13_Witness ==
  /\ lastEvent.op = "drop"
  /\ iconDrag.dragStartIndex = 2
  /\ apps = <<[id |-> 3, name |-> 0, order |-> 0],
              [id |-> 1, name |-> 0, order |-> 1],
              [id |-> 2, name |-> 0, order |-> 2]>>

\* C14 (as stated): for every app list reachable by add, delete and
\* reorder, the multiset of order values after handleDrop/handleReorder
\* equals the multiset before it.
OrderCount(list, v) == Cardinality({i \in 1..Len(list) : list[i].order = v})
SameOrders(l1, l2) ==
  /\ Len(l1) = Len(l2)
  /\ \A v \in 0..(NumApps + MaxAdds) : OrderCount(l1, v) = OrderCount(l2, v)

C14_Original ==
  [][\A t \in 0..(NumApps + MaxAdds - 1) :
       EffectiveDrop(t) => SameOrders(apps, apps')]_vars

\* C14 (amended): after a reorder the order values are 0..n-1, each once
\* and in list position; the multiset of order values is the one before
\* the reorder exactly when the values before were already 0..n-1.
Contiguous(list) == \A v \in 0..(Len(list) - 1) : OrderCount(list, v) = 1

C14_ReorderNormalises ==
  [][\A t \in 0..(NumApps + MaxAdds - 1) :
       EffectiveDrop(t) =>
         /\ \A i \in 1..Len(apps') : apps'[i].order = i - 1
         /\ Len(apps') = Len(apps)
         /\ Contiguous(apps) <=> SameOrders(apps, apps')]_vars

\* the first shortcut was deleted, a shortcut was added, and the added
\* one was dropped in front of the remaining one: the order values are 0, 1
C14_Witness ==
  /\ lastEvent.op = "drop"
  /\ iconDrag.dragStartIndex = 1
  /\ apps = <<[id |-> NumApps + 1, name |-> 0, order |-> 0],
              [id |-> NumApps, name |-> 0, order |-> 1]>>

\* C20: an open window keeps the app snapshot captured at launch: an
\* edit of the shortcut, a reorder, or a relaunch of the edited shortcut
\* changes no app field of an entry of openWindows.
Relaunch(a) ==
  /\ Launch(a, FirstPosition)
  /\ \E w \in Range(openWindows) : w.app.id = a.id

C20_SnapshotKept ==
  [][(EditStep \/ DropStep \/ \E a \in Range(apps) : Relaunch(a)) =>
       /\ Len(openWindows') = Len(openWindows)
       /\ \A i \in 1..Len(openWindows) :
            /\ openWindows'[i].id = openWindows[i].id
            /\ openWindows'[i].app = openWindows[i].app]_vars

\* a shortcut was edited and moved while its window was open and then
\* launched again: the window shows what it captured when it was opened
C20_Witness ==
  /\ lastEvent.op = "launch"
  /\ \E w \in Range(openWindows), a \in Range(apps) :
       /\ w.id = lastEvent.win
       /\ w.zIndex = topZ
       /\ a.id = w.app.id
       /\ a.name # w.app.name
       /\ a.order # w.app.order

\* C15: each caller owns an isolated app list and settings record: no
\* addApp, updateApp, deleteApp or updateSettings call by one caller
\* changes what getApps and getSettings return for another caller.
\* the step is the call op by caller c about id (every call says so in
\* reply; testing it first spares evaluating the calls it is not)
Called(op, c, id) ==
  reply'.op = op /\ reply'.caller = c /\ reply'.id = id

CallBy(c) ==
  /\ reply'.caller = c
  /\ \/ \E a \in BackendApps :
          \/ Called("addApp", c, a.id) /\ AddAppCall(c, a)
          \/ Called("updateApp", c, a.id) /\ UpdateAppCall(c, a)
     \/ \E i \in AppIds : Called("deleteApp", c, i) /\ DeleteAppCall(c, i)
     \/ \E n \in SettingsInputs :
          Called("updateSettings", c, 0) /\ UpdateSettingsCall(c, n)

C15_CallerIsolation ==
  [][\A c \in Callers :
       CallBy(c) =>
         \A b \in Callers \ {c} :
           /\ getApps(userApps', b) = getApps(userApps, b)
           /\ getSettings(userSettings', b) =
                getSettings(userSettings, b)]_vars

\* both callers store a shortcut under the same id with different fields
\* and have different settings, and the last call was alice's
C15_Witness ==
  /\ reply.caller = "alice"
  /\ getApps(userApps, "alice") = <<[id |-> 1, name |-> 1, order |-> 0]>>
  /\ getApps(userApps, "bob") = <<[id |-> 1, name |-> 0, order |-> 0]>>
  /\ userSettings["alice"] # NoSettings
  /\ userSettings["bob"] # NoSettings
  /\ getSettings(userSettings, "alice") # getSettings(userSettings, "bob")

\* C16: updateApp and deleteApp trap when the caller has no shortcut with
\* the given id (also when the caller never added an app) and then leave
\* the stored apps unchanged; when the id is present updateApp replaces
\* exactly that entry and deleteApp removes exactly that entry.
Stored(c, id) == userApps[c] # NoMap /\ id \in DOMAIN userApps[c][1]
Traps == {"No apps found for user", "App not found"}
OthersKept(c, id) ==
  /\ \A b \in Callers \ {c} : userApps'[b] = userApps[b]
  /\ userApps'[c] # NoMap
  /\ \A k \in DOMAIN userApps[c][1] \ {id} :
       k \in DOMAIN userApps'[c][1] /\ userApps'[c][1][k] = userApps[c][1][k]

C16_UpdateDeleteNotFound ==
  /\ [][\A c \in Callers, a \in BackendApps :
          (Called("updateApp", c, a.id) /\ UpdateAppCall(c, a)) =>
            IF Stored(c, a.id)
            THEN /\ reply'.result = "ok"
                 /\ OthersKept(c, a.id)
                 /\ DOMAIN userApps'[c][1] = DOMAIN userApps[c][1]
                 /\ userApps'[c][1][a.id] = a
            ELSE /\ reply'.result \in Traps
                 /\ userApps' = userApps]_vars
  /\ [][\A c \in Callers, i \in AppIds :
          (Called("deleteApp", c, i) /\ DeleteAppCall(c, i)) =>
            IF Stored(c, i)
            THEN /\ reply'.result = "ok"
                 /\ OthersKept(c, i)
                 /\ DOMAIN userApps'[c][1] = DOMAIN userApps[c][1] \ {i}
            ELSE /\ reply'.result \in Traps
                 /\ userApps' = userApps]_vars

\* updateApp by a caller who never added an app has trapped, for an id
\* that the other caller does store
C16_Witness ==
  /\ reply.op = "updateApp"
  /\ reply.result \in Traps
  /\ userApps[reply.caller] = NoMap
  /\ \E b \in Callers : Stored(b, reply.id)

\* C17: addApp never rejects a duplicate id: adding an app whose id the
\* caller already stores replaces that entry, so the number of stored
\* apps does not grow and getApps returns the new fields for that id.
C17_AddUpserts ==
  [][\A c \in Callers, a \in BackendApps :
       (Called("addApp", c, a.id) /\ AddAppCall(c, a)) =>
         /\ reply'.result = "ok"
         /\ \E i \in 1..Len(getApps(userApps', c)) :
              /\ getApps(userApps', c)[i] = a
              /\ \A j \in 1..Len(getApps(userApps', c)) :
                   getApps(userApps', c)[j].id = a.id => j = i
         /\ Stored(c, a.id) =>
              Len(getApps(userApps', c)) = Len(getApps(userApps, c))]_vars

\* an app was added under an id the caller already stored with other
\* fields: two apps before, two apps after, the new name under that id
C17_Witness ==
  /\ reply.op = "addApp"
  /\ reply.result = "ok"
  /\ reply.before = 2
  /\ Len(getApps(userApps, reply.caller)) = 2
  /\ userApps[reply.caller][1][reply.id].name = 1

\* C18: getSettings returns the documented defaults for a caller that
\* never called updateSettings, and otherwise exactly the record passed to
\* that caller's most recent updateSettings.
DocumentedDefaults ==
  [backgroundEffect |-> "grid", wallpaper |-> "#050510",
   accentColor |-> "#00f5ff", showClock |-> TRUE, openInIframe |-> TRUE,
   taskbarPosition |-> "bottom"]

C18_SettingsDefaultsAndReplace ==
  /\ [](\A c \in Callers :
          userSettings[c] = NoSettings =>
            getSettings(userSettings, c) = DocumentedDefaults)
  /\ [][\A c \in Callers, n \in SettingsInputs :
          (Called("updateSettings", c, 0) /\ UpdateSettingsCall(c, n)) =>
            getSettings(userSettings', c) = n]_vars
  /\ [][\A c \in Callers :
          getSettings(userSettings', c) # getSettings(userSettings, c) =>
            reply'.op = "updateSettings" /\ reply'.caller = c]_vars

\* a caller who had stored a record replaced it by one that changes only
\* the taskbar position, while the other caller still gets the defaults
C18_Witness ==
  /\ reply.op = "updateSettings"
  /\ reply.before = 1
  /\ getSettings(userSettings, reply.caller) =
       [DocumentedDefaults EXCEPT !.taskbarPosition = "top"]
  /\ \E b \in Callers :
       /\ userSettings[b] = NoSettings
       /\ getSettings(userSettings, b) = DocumentedDefaults

\* C19: shortcut ids are unique within a user's registry after any
\* sequence of add, edit, delete and reorder, in the apps state of the
\* frontend and in the backend's map of each caller; an edit keeps the
\* entry's id and the number of entries.
UniqueIds(list) ==
  \A i, j \in 1..Len(list) : i # j => list[i].id # list[j].id
IdsOf(list) == [i \in 1..Len(list) |-> list[i].id]

C19_IdsUnique ==
  /\ [](UniqueIds(apps) /\ \A c \in Callers : UniqueIds(getApps(userApps, c)))
  /\ [][EditStep => IdsOf(apps') = IdsOf(apps)]_vars
  /\ [][\A c \in Callers, a \in BackendApps :
          (Called("updateApp", c, a.id) /\ UpdateAppCall(c, a)
             /\ reply'.result = "ok") =>
            IdsOf(getApps(userApps', c)) = IdsOf(getApps(userApps, c))]_vars

\* the first shortcut was edited after a shortcut had been added, another
\* deleted and the list reordered
C19_Witness ==
  /\ lastEvent.op = "edit"
  /\ uuid > NumApps
  /\ Len(apps) = NumApps
  /\ apps[1].id = uuid
  /\ apps[1].order = 0
  /\ \E i \in 1..Len(apps) : apps[i].id = 1 /\ apps[i].name = 1

\* C22: the z-index counter topZ starts at 100 and never decreases (Close
\* and delete leave it alone); it advances by exactly one on every Launch
\* that creates a window, every Launch that refocuses one and every Focus;
\* every open window's zIndex is at most topZ and no two open windows
\* have the same zIndex.
ZIndexUnique ==
  \A i, j \in 1..Len(openWindows) :
    i # j => openWindows[i].zIndex # openWindows[j].zIndex

C22_TopZAdvances ==
  /\ topZ = 100
  /\ [](/\ \A w \in Range(openWindows) : w.zIndex <= topZ
        /\ ZIndexUnique)
  /\ [][/\ topZ' >= topZ
        /\ (localSettings.openInIframe /\ LaunchStep(FirstPosition)) =>
             topZ' = topZ + 1
        /\ BodyPressStep => topZ' = topZ + 1
        /\ (CloseStep \/ DeleteStep) => topZ' = topZ]_vars

\* two windows are open, one of a shortcut that was deleted, and a Focus
\* drew the third value of the counter
C22_Witness ==
  /\ lastEvent.op = "focus"
  /\ topZ = 103
  /\ Len(openWindows) = 2
  /\ Len(apps) = 1
  /\ WinOf(lastEvent.win).zIndex = 103
\* C23: a pointer-move during a drag changes only the position of the
\* dragged window and leaves every window's zIndex and the counter topZ
\* unchanged; the title-bar press that starts a drag focuses the window
\* (it gets the new top zIndex) and changes no position: positions change
\* only in the moves that follow.
C23_DragOnlyMoves ==
  [][/\ (lastEvent'.op = "move" /\ MouseMoveStep) =>
          /\ openWindows' = openWindows
          /\ topZ' = topZ
          /\ \A id \in DOMAIN comp :
               /\ comp'[id] = [comp[id] EXCEPT !.pos = comp'[id].pos]
               /\ id \notin Dragged => comp'[id] = comp[id]
     /\ \A id \in AllWindowIds :
          (lastEvent'.op = "press" /\ \E g \in Grabs : TitleBarPress(id, g)) =>
            /\ comp'[id].pos = comp[id].pos
            /\ comp'[id].isDragging
            /\ topZ' > topZ
            /\ WinIn(openWindows', id).zIndex = topZ']_vars

\* a move has taken the dragged window away from where it opened
C23_Witness ==
  /\ lastEvent.op = "move"
  /\ \E id \in Dragged :
       /\ comp[id].pos \notin InitialPositions
       /\ WinOf(id).zIndex = topZ
       /\ topZ = InitialTopZ + 3
\* C24: a window's global pointer-move / pointer-up handlers are subscribed
\* only while a drag of that window is active: every window with
\* registered handlers is open and being dragged, and a pointer-up leaves
\* no window dragging (so no handler moves a window until the next press).
C24_SubscribedOnlyWhileDragging ==
  /\ [](\A id \in Listeners : id \in WindowIds /\ comp[id].isDragging)
  /\ [][(lastEvent'.op = "up" /\ MouseUp) =>
          \A id \in DOMAIN comp' : ~ comp'[id].isDragging]_vars
\* C25: order values are unique across the app list after any sequence of
\* add, delete and reorder from the seeded list: no two shortcuts have
\* the same order, in particular after a delete followed by an add.
C25_OrdersUnique ==
  \A i, j \in 1..Len(apps) : i # j => apps[i].order # apps[j].order
\* C21: under fair firing of deferred callbacks a window that enters
\* phase minimizing eventually reaches phase minimized, and a window that
\* enters phase restoring eventually reaches phase open, unless it is
\* closed first, whatever Minimize and Restore clicks come in between.
Closed(id) == id \notin DOMAIN comp
C21_TransientSettles ==
  \A id \in AllWindowIds :
    /\ (~ Closed(id) /\ comp[id].phase = "minimizing")
         ~> (Closed(id) \/ comp[id].phase = "minimized")
    /\ (~ Closed(id) /\ comp[id].phase = "restoring")
         ~> (Closed(id) \/ comp[id].phase = "open")

\* the last click on an open window was Minimize, every callback has
\* fired and the window is minimized
C21_Witness ==
  /\ ~ Closed(intent.win)
  /\ intent.op = "minimize"
  /\ comp[intent.win].phase = "minimized"
  /\ TimersOf(intent.win) = {}
  /\ topZ = InitialTopZ + 1

\* C26: whenever an open window is in a transient phase, at least one
\* deferred callback of that window that moves it to the matching settled
\* phase (minimized for minimizing, open for restoring) is pending.
C26_TransientHasCallback ==
  \A id \in DOMAIN comp :
    /\ comp[id].phase = "minimizing" =>
         \E i \in TimersOf(id) : timers[i].to = "minimized"
    /\ comp[id].phase = "restoring" =>
         \E i \in TimersOf(id) : timers[i].to = "open"

\* a window is minimizing while the callback of an earlier Restore is
\* still pending next to the one of the Minimize
C26_Witness ==
  \E id \in DOMAIN comp :
    /\ comp[id].phase = "minimizing"
    /\ \E i, j \in TimersOf(id) :
         timers[i].to = "open" /\ timers[j].to = "minimized"

\* C27: once every pending deferred callback of a window has fired, its
\* phase matches the last click that acted on it: minimized after
\* Minimize, open after Restore.
C27_LastIntentWins ==
  \A id \in DOMAIN comp :
    (intent.win = id /\ TimersOf(id) = {}) =>
      comp[id].phase = (IF intent.op = "minimize" THEN "minimized"
                        ELSE "open")
\* C29: while the setting openInIframe is false, Launch creates no window
\* and refocuses none: openWindows, the mounted windows and the counter
\* topZ are unchanged by launchApp, whether or not a window of that app
\* is already open.
C29_ExternalLaunchKeepsWindows ==
  [][(~ localSettings.openInIframe /\ LaunchStep(FirstPosition)) =>
       /\ openWindows' = openWindows
       /\ topZ' = topZ
       /\ comp' = comp
       /\ dateNow' = dateNow]_vars

\* with a window open for one of the two shortcuts only, a shortcut was
\* launched while openInIframe was false
C29_Witness ==
  /\ lastEvent.op = "external"
  /\ ~ localSettings.openInIframe
  /\ Len(openWindows) = 1
  /\ Len(apps) = 2
\* C28: default shortcuts are seeded at most once: the first load (seeded
\* flag absent) stores the defaults with orders 0..n-1 and sets the flag;
\* on every later load the app list is exactly what was last saved, so a
\* list emptied by deletes is still empty after a reload.
SeededDefaults(list) ==
  /\ Len(list) = NumApps
  /\ \A i \in 1..Len(list) : list[i].order = i - 1

C28_SeededOnce ==
  /\ SeededDefaults(apps)
  /\ localStorage.seeded = <<"true">>
  /\ loadApps(localStorage) = apps
  /\ [][(lastEvent'.op = "reload" /\ Reload) =>
          /\ localStorage.seeded = <<"true">>
          /\ apps' = loadApps(localStorage)
          /\ apps' = apps
          /\ localStorage' = localStorage]_vars

\* every shortcut was deleted and the page was loaded again
C28_Witness ==
  /\ lastEvent.op = "reload"
  /\ apps = <<>>
  /\ localStorage.seeded = <<"true">>
  /\ localStorage.apps = <<<<>>>>

====
